---------------------------- MODULE Spec2Model ----------------------------
(***************************************************************************)
(* The data model of backend/app/models.py: SQLModel classes, the tables   *)
(* they declare, the constraints of their columns and the relationships    *)
(* between them.                                                           *)
(*                                                                         *)
(* The file declares no functions of its own.  What it does is fixed by    *)
(* the keywords it passes to SQLModel, pydantic and SQLAlchemy:            *)
(*   - a class declared with table=True is a mapped table; its constructor *)
(*     stores the keyword values without running the pydantic validators   *)
(*     (Cls.model_validate does run them); a class without table=True is a *)
(*     plain pydantic model, validated on construction;                    *)
(*   - Field(foreign_key=...), Field(unique=True) and an Enum-typed column *)
(*     become constraints the database checks at flush;                    *)
(*   - Relationship(cascade="delete") makes Session.delete of an object    *)
(*     also delete the objects the relationship reaches;                   *)
(*   - default_factory is called at construction, field by field in        *)
(*     declaration order, and onupdate when an UPDATE of the row is        *)
(*     emitted.                                                            *)
(* The operations below are the ones a session offers on these classes:    *)
(* construct, add + commit, modify + commit, delete + commit.              *)
(***************************************************************************)
EXTENDS Integers, Sequences, FiniteSets, TLC

VARIABLES
    user,         \* table "user":        id -> [email]
    item,         \* table "item":        id -> [owner_id]
    address,      \* table "address":     id -> [city]
    order,        \* table "order":       id -> [sender_address_id, recipient_address_id,
                  \*                             status, created_at, updated_at]
    packageitem,  \* table "packageitem": id -> [order_id]
    payment,      \* table "payment":     id -> [order_id, created_at]
    now,          \* the reading datetime.utcnow() returns
    outcome,      \* what the last session operation did
    obj,          \* the last construction of a model class and how it ended
    rows,         \* User objects handed over for serialisation
    response      \* the UsersPublic built from rows

vars == <<user, item, address, order, packageitem, payment, now, outcome, obj, rows, response>>

tables == <<user, item, address, order, packageitem, payment>>

-----------------------------------------------------------------------------
(* Bounds of the model *)

NumUsers == 2
NumItems == 2
NumAddresses == 2
NumOrders == 1
NumPackageItems == 2
NumPayments == 1
MaxClock == 3
MaxStoreRows == 4
MaxRows == 2
Slack == 2

UserIds == 1..NumUsers
ItemIds == 1..NumItems
AddressIds == 1..NumAddresses
OrderIds == 1..NumOrders
PackageItemIds == 1..NumPackageItems
PaymentIds == 1..NumPayments

Emails == {"ann@example.com", "bob@example.com"}

-----------------------------------------------------------------------------
(* Enums *)

OrderStatus == {"pending", "confirmed", "in_transit", "delivered", "cancelled"}

DeliveryStatus == {"assigned", "in_transit", "delivered", "cancelled"}

PaymentStatus == {"pending", "successful", "failed"}

PaymentMethod == {"credit_card", "paypal", "crypto", "bank_transfer"}

VehicleType == {"bike", "car", "truck", "airplane", "ship"}

-----------------------------------------------------------------------------
(* The database: a snapshot is the record of the six tables *)

Snapshot == [user |-> user, item |-> item, address |-> address, order |-> order,
             packageitem |-> packageitem, payment |-> payment]

\* The rows of a snapshot, as <<table, id>> pairs.
Rows(S) ==
    {<<"user", i>> : i \in DOMAIN S.user} \cup
    {<<"item", i>> : i \in DOMAIN S.item} \cup
    {<<"address", i>> : i \in DOMAIN S.address} \cup
    {<<"order", i>> : i \in DOMAIN S.order} \cup
    {<<"packageitem", i>> : i \in DOMAIN S.packageitem} \cup
    {<<"payment", i>> : i \in DOMAIN S.payment}

\* f without the keys in ks
Without(f, ks) == [k \in DOMAIN f \ ks |-> f[k]]

\* f with key k bound to v
With(f, k, v) == [x \in DOMAIN f \cup {k} |-> IF x = k THEN v ELSE f[x]]

\* Item.owner_id = Field(foreign_key="user.id", nullable=False)
ItemOwnerFK(S) == \A i \in DOMAIN S.item : S.item[i].owner_id \in DOMAIN S.user

\* PackageItem.order_id = Field(foreign_key="order.id")
PackageItemOrderFK(S) ==
    \A p \in DOMAIN S.packageitem : S.packageitem[p].order_id \in DOMAIN S.order

\* Faulty variant: recipient_address_id declared without its foreign key.
OrderAddressFKSenderOnly(S) ==
    \A o \in DOMAIN S.order : S.order[o].sender_address_id \in DOMAIN S.address

\* Order.sender_address_id, Order.recipient_address_id = Field(foreign_key="address.id")
OrderAddressFK(S) ==
    \A o \in DOMAIN S.order :
        /\ S.order[o].sender_address_id \in DOMAIN S.address
        /\ S.order[o].recipient_address_id \in DOMAIN S.address

\* Payment.order_id = Field(foreign_key="order.id")
PaymentOrderFK(S) == \A p \in DOMAIN S.payment : S.payment[p].order_id \in DOMAIN S.order

ForeignKeys(S) ==
    ItemOwnerFK(S) /\ PackageItemOrderFK(S) /\ OrderAddressFK(S) /\ PaymentOrderFK(S)

\* Faulty variant: email declared as in UserUpdate, without unique=True.
UniqueEmailMissing(S) == TRUE

\* UserBase.email = Field(unique=True, index=True), inherited by the table User
UniqueEmail(S) ==
    \A u1, u2 \in DOMAIN S.user : S.user[u1].email = S.user[u2].email => u1 = u2

\* Order.status: OrderStatus is an Enum column; a value that is no member is
\* refused when the row is written.
EnumColumns(S) == \A o \in DOMAIN S.order : S.order[o].status \in OrderStatus

\* How the database answers a flush that would leave it in snapshot S.
Flush(S) ==
    IF ~EnumColumns(S) THEN "DataError"
    ELSE IF ~(ForeignKeys(S) /\ UniqueEmail(S)) THEN "IntegrityError"
    ELSE "ok"

\* session.commit(): the snapshot S the unit of work computed is written if the
\* database accepts it; otherwise the transaction is rolled back.
Commit(S, op, id) ==
    LET res == Flush(S) IN
    /\ user' = IF res = "ok" THEN S.user ELSE user
    /\ item' = IF res = "ok" THEN S.item ELSE item
    /\ address' = IF res = "ok" THEN S.address ELSE address
    /\ order' = IF res = "ok" THEN S.order ELSE order
    /\ packageitem' = IF res = "ok" THEN S.packageitem ELSE packageitem
    /\ payment' = IF res = "ok" THEN S.payment ELSE payment
    /\ outcome' = [op |-> op, id |-> id, result |-> res,
                   removed |-> IF res = "ok" THEN Rows(Snapshot) \ Rows(S) ELSE {}]

-----------------------------------------------------------------------------
(* Relationships and their cascades *)

\* The relationships the mapped classes declare, by table of the declaring class.
Relationships ==
    [user |-> {"User.items"},
     item |-> {"Item.owner"},
     address |-> {},
     order |-> {"Order.sender_address", "Order.recipient_address", "Order.package_items"},
     packageitem |-> {"PackageItem.order"},
     payment |-> {"Payment.order"}]

\* Faulty variant: User.items declared without the delete cascade.
DeleteCascadeWithoutUserItems == {"PackageItem.order", "Order.package_items"}

\* The relationships declared with sa_relationship_kwargs={"cascade": "delete"}.
\* PackageItem.order, the many-to-one side, carries it as well as
\* Order.package_items.
DeleteCascade == {"User.items", "PackageItem.order", "Order.package_items"}

\* The rows relationship rel of row <<t, id>> refers to in snapshot S.
Related(S, rel, id) ==
    CASE rel = "User.items" ->
            {<<"item", i>> : i \in {j \in DOMAIN S.item : S.item[j].owner_id = id}}
      [] rel = "Item.owner" ->
            {<<"user", u>> : u \in {S.item[id].owner_id} \cap DOMAIN S.user}
      [] rel = "Order.package_items" ->
            {<<"packageitem", p>> :
                p \in {q \in DOMAIN S.packageitem : S.packageitem[q].order_id = id}}
      [] rel = "PackageItem.order" ->
            {<<"order", o>> : o \in {S.packageitem[id].order_id} \cap DOMAIN S.order}
      [] rel = "Order.sender_address" ->
            {<<"address", a>> : a \in {S.order[id].sender_address_id} \cap DOMAIN S.address}
      [] rel = "Order.recipient_address" ->
            {<<"address", a>> : a \in {S.order[id].recipient_address_id} \cap DOMAIN S.address}
      [] rel = "Payment.order" ->
            {<<"order", o>> : o \in {S.payment[id].order_id} \cap DOMAIN S.order}

\* The rows the delete cascade carries a deletion of the rows R on to, in one step.
CascadeStep(S, R) ==
    UNION {Related(S, rel, r[2]) : <<r, rel>> \in
              {<<x, l>> \in R \X DeleteCascade : l \in Relationships[x[1]]}}

\* Session.delete marks the object and, following the delete cascades, every
\* object they reach.
RECURSIVE CascadeClosure(_, _)
CascadeClosure(S, R) ==
    LET more == R \cup CascadeStep(S, R) IN
    IF more = R THEN R ELSE CascadeClosure(S, more)

Ids(R, t) == {r[2] : r \in {x \in R : x[1] = t}}

\* The snapshot without the rows R.
Remove(S, R) ==
    [user |-> Without(S.user, Ids(R, "user")),
     item |-> Without(S.item, Ids(R, "item")),
     address |-> Without(S.address, Ids(R, "address")),
     order |-> Without(S.order, Ids(R, "order")),
     packageitem |-> Without(S.packageitem, Ids(R, "packageitem")),
     payment |-> Without(S.payment, Ids(R, "payment"))]

\* session.delete(row); session.commit()
SessionDelete(t, id, op) ==
    Commit(Remove(Snapshot, CascadeClosure(Snapshot, {<<t, id>>})), op, id)

-----------------------------------------------------------------------------
(* Timestamps *)

\* created_at = Field(default_factory=datetime.utcnow) and
\* updated_at = Field(default_factory=datetime.utcnow, ...): the two factories are
\* called one after the other, at clock readings t1 <= t2.
OrderDefaults(t1, t2) == [created_at |-> t1, updated_at |-> t2]

\* Faulty variant: updated_at declared without onupdate.
OnUpdateMissing(row, t) == row

\* updated_at ... sa_column_kwargs={"onupdate": datetime.utcnow}: an UPDATE of
\* the row that does not set updated_at itself sets it to the clock's reading.
OnUpdate(row, t) == [row EXCEPT !.updated_at = t]

\* Payment.created_at = Field(default_factory=datetime.utcnow); Payment declares
\* no updated_at.
PaymentDefaults(t) == [created_at |-> t]

-----------------------------------------------------------------------------
(* Session operations *)

NoOutcome == [op |-> "none", id |-> 0, result |-> "ok", removed |-> {}]

NoObj == [cls |-> "none", via |-> "none", input |-> <<>>, raised |-> FALSE]

NoResponse == [data |-> <<>>, count |-> 0]

OutsideStore == UNCHANGED <<obj, rows, response>>

\* The store has room for one more row (the bound of the model on its size).
Room == Cardinality(Rows(Snapshot)) < MaxStoreRows

\* session.add(User(email=e)); session.commit()
CreateUser(u, e) ==
    /\ u \notin DOMAIN user
    /\ Room
    /\ Commit([Snapshot EXCEPT !.user = With(user, u, [email |-> e])], "create_user", u)
    /\ UNCHANGED now /\ OutsideStore

\* user.sqlmodel_update(UserUpdate(email=e) or UserUpdateMe(email=e)); commit
UpdateUser(u, e) ==
    /\ u \in DOMAIN user
    /\ Commit([Snapshot EXCEPT !.user = With(user, u, [email |-> e])], "update_user", u)
    /\ UNCHANGED now /\ OutsideStore

DeleteUser(u) ==
    /\ u \in DOMAIN user
    /\ SessionDelete("user", u, "delete_user")
    /\ UNCHANGED now /\ OutsideStore

\* session.add(Item(owner_id=u)); session.commit()
CreateItem(i, u) ==
    /\ i \notin DOMAIN item
    /\ Room
    /\ Commit([Snapshot EXCEPT !.item = With(item, i, [owner_id |-> u])], "create_item", i)
    /\ UNCHANGED now /\ OutsideStore

DeleteItem(i) ==
    /\ i \in DOMAIN item
    /\ SessionDelete("item", i, "delete_item")
    /\ UNCHANGED now /\ OutsideStore

\* session.add(Address(...)); session.commit()
CreateAddress(a) ==
    /\ a \notin DOMAIN address
    /\ Room
    /\ Commit([Snapshot EXCEPT !.address = With(address, a, [city |-> "city"])],
              "create_address", a)
    /\ UNCHANGED now /\ OutsideStore

DeleteAddress(a) ==
    /\ a \in DOMAIN address
    /\ SessionDelete("address", a, "delete_address")
    /\ UNCHANGED now /\ OutsideStore

\* session.add(Order(sender_address_id=s, recipient_address_id=r, status=st));
\* session.commit().  The clock advances by d between the two default factories.
CreateOrder(o, s, r, st, d) ==
    /\ o \notin DOMAIN order
    /\ Room
    /\ now + d <= MaxClock
    /\ LET ts == OrderDefaults(now, now + d)
           row == [sender_address_id |-> s, recipient_address_id |-> r, status |-> st,
                   created_at |-> ts.created_at, updated_at |-> ts.updated_at]
       IN Commit([Snapshot EXCEPT !.order = With(order, o, row)], "create_order", o)
    /\ now' = now + d
    /\ OutsideStore

\* order.status = st; session.commit().  The unit of work emits an UPDATE only
\* when the attribute's value has changed.
UpdateOrder(o, st) ==
    /\ o \in DOMAIN order
    /\ LET row == IF st = order[o].status THEN order[o]
                  ELSE OnUpdate([order[o] EXCEPT !.status = st], now)
       IN Commit([Snapshot EXCEPT !.order = With(order, o, row)], "update_order", o)
    /\ UNCHANGED now /\ OutsideStore

DeleteOrder(o) ==
    /\ o \in DOMAIN order
    /\ SessionDelete("order", o, "delete_order")
    /\ UNCHANGED now /\ OutsideStore

\* session.add(PackageItem(order_id=o, ...)); session.commit()
CreatePackageItem(p, o) ==
    /\ p \notin DOMAIN packageitem
    /\ Room
    /\ Commit([Snapshot EXCEPT !.packageitem = With(packageitem, p, [order_id |-> o])],
              "create_packageitem", p)
    /\ UNCHANGED now /\ OutsideStore

DeletePackageItem(p) ==
    /\ p \in DOMAIN packageitem
    /\ SessionDelete("packageitem", p, "delete_packageitem")
    /\ UNCHANGED now /\ OutsideStore

\* session.add(Payment(order_id=o, ...)); session.commit()
CreatePayment(p, o) ==
    /\ p \notin DOMAIN payment
    /\ Room
    /\ LET row == [order_id |-> o, created_at |-> PaymentDefaults(now).created_at]
       IN Commit([Snapshot EXCEPT !.payment = With(payment, p, row)], "create_payment", p)
    /\ UNCHANGED now /\ OutsideStore

DeletePayment(p) ==
    /\ p \in DOMAIN payment
    /\ SessionDelete("payment", p, "delete_payment")
    /\ UNCHANGED now /\ OutsideStore

\* Time passes.
Tick ==
    /\ now < MaxClock
    /\ now' = now + 1
    /\ UNCHANGED <<tables, outcome>> /\ OutsideStore

-----------------------------------------------------------------------------
(* The store: creations, deletions and user updates, the clock standing still *)

\* A status the application may pass that OrderStatus does not declare.
UndeclaredStatus == "shipped"

StoreStatuses == {"pending", UndeclaredStatus}

Init ==
    /\ user = <<>> /\ item = <<>> /\ address = <<>>
    /\ order = <<>> /\ packageitem = <<>> /\ payment = <<>>
    /\ now = 0
    /\ outcome = NoOutcome
    /\ obj = NoObj
    /\ rows = <<>>
    /\ response = NoResponse

Next ==
    \/ \E u \in UserIds, e \in Emails : CreateUser(u, e)
    \/ \E u \in UserIds, e \in Emails : UpdateUser(u, e)
    \/ \E u \in UserIds : DeleteUser(u)
    \/ \E i \in ItemIds, u \in UserIds : CreateItem(i, u)
    \/ \E i \in ItemIds : DeleteItem(i)
    \/ \E a \in AddressIds : CreateAddress(a)
    \/ \E a \in AddressIds : DeleteAddress(a)
    \/ \E o \in OrderIds, s, r \in AddressIds, st \in StoreStatuses : CreateOrder(o, s, r, st, 0)
    \/ \E o \in OrderIds : DeleteOrder(o)
    \/ \E p \in PackageItemIds, o \in OrderIds : CreatePackageItem(p, o)
    \/ \E p \in PackageItemIds : DeletePackageItem(p)
    \/ \E p \in PaymentIds, o \in OrderIds : CreatePayment(p, o)
    \/ \E p \in PaymentIds : DeletePayment(p)

Spec == Init /\ [][Next]_vars

-----------------------------------------------------------------------------
(* The clock: orders and payments while time passes, in a store that holds *)
(* the addresses already                                                   *)

ClockStatuses == {"pending", "confirmed"}

InitClock ==
    /\ user = <<>> /\ item = <<>>
    /\ address = [a \in AddressIds |-> [city |-> "city"]]
    /\ order = <<>> /\ packageitem = <<>> /\ payment = <<>>
    /\ now = 0
    /\ outcome = NoOutcome
    /\ obj = NoObj
    /\ rows = <<>>
    /\ response = NoResponse

NextClock ==
    \/ Tick
    \/ \E o \in OrderIds, a \in AddressIds, st \in ClockStatuses, d \in 0..1 :
          CreateOrder(o, a, a, st, d)
    \/ \E o \in OrderIds, st \in ClockStatuses : UpdateOrder(o, st)
    \/ \E o \in OrderIds : DeleteOrder(o)
    \/ \E p \in PaymentIds, o \in OrderIds : CreatePayment(p, o)
    \/ \E p \in PaymentIds : DeletePayment(p)

SpecClock == InitClock /\ [][NextClock]_vars

-----------------------------------------------------------------------------
(* Transfer shapes of User *)

None == "None"

\* class UserBase: email, is_active, is_superuser, full_name
UserBaseFields == {"email", "is_active", "is_superuser", "full_name"}

\* class User(UserBase, table=True): id, hashed_password (items is a
\* relationship, not a field of the row)
UserFields == UserBaseFields \cup {"id", "hashed_password"}

\* Faulty variant: UserPublic deriving from User instead of UserBase.
UserPublicFieldsOfUser == UserFields

\* class UserPublic(UserBase): id
UserPublicFields == UserBaseFields \cup {"id"}

\* The UserPublic of a User object: the fields UserPublic declares, read from
\* the object's attributes of the same names.
UserPublicOf(u) == [f \in UserPublicFields |-> u[f]]

\* class UsersPublic: data: list[UserPublic], count: int
UsersPublicOf(us) ==
    [data |-> [k \in 1..Len(us) |-> UserPublicOf(us[k])], count |-> Len(us)]

Hashes == {"$2b$12$aaaa", "$2b$12$bbbb"}

UserObjects ==
    [id : UserIds, email : Emails, is_active : BOOLEAN, is_superuser : BOOLEAN,
     full_name : {None, "Ann"}, hashed_password : Hashes]

RowLists == UNION {[1..n -> UserObjects] : n \in 0..MaxRows}

InitPublic ==
    /\ user = <<>> /\ item = <<>> /\ address = <<>>
    /\ order = <<>> /\ packageitem = <<>> /\ payment = <<>>
    /\ now = 0
    /\ outcome = NoOutcome
    /\ obj = NoObj
    /\ rows \in RowLists
    /\ response = NoResponse

\* UsersPublic(data=users, count=count)
BuildUsersPublic ==
    /\ response' = UsersPublicOf(rows)
    /\ UNCHANGED <<tables, now, outcome, obj, rows>>

NextPublic == BuildUsersPublic

SpecPublic == InitPublic /\ [][NextPublic]_vars

-----------------------------------------------------------------------------
(* Construction and validation of model instances *)

\* The classes declared with table=True.
TableModels ==
    {"User", "Item", "Address", "DeliveryCompany", "PackageItem", "Order", "Vehicle",
     "Driver", "Delivery", "Payment", "Feedback", "Promotion"}

RatingMin == 1
RatingMax == 5
DiscountMin == 0
DiscountMax == 100
TitleMinLength == 1
TitleMaxLength == 255
DescriptionMaxLength == 255

\* Feedback.rating: int = Field(ge=1, le=5)
RatingOk(v) == v >= RatingMin /\ v <= RatingMax

\* Promotion.discount_percentage: float = Field(ge=0, le=100)
DiscountOk(v) == v >= DiscountMin /\ v <= DiscountMax

\* ItemBase.title: str = Field(min_length=1, max_length=255); a string is
\* modelled by its length.
ItemBaseTitleOk(n) == n >= TitleMinLength /\ n <= TitleMaxLength

\* Faulty variant: the override of title keeping max_length only, as Item.title does.
ItemUpdateTitleNoMin(n) == n <= TitleMaxLength

\* ItemUpdate.title: str | None = Field(default=None, min_length=1, max_length=255)
ItemUpdateTitleOk(n) == n >= TitleMinLength /\ n <= TitleMaxLength

\* ItemBase.description: str | None = Field(default=None, max_length=255),
\* inherited by ItemCreate and ItemUpdate
DescriptionOk(n) == n <= DescriptionMaxLength

\* The fields a class requires (no default).
Required(cls) ==
    CASE cls = "Feedback" -> {"rating"}
      [] cls = "Promotion" -> {"discount_percentage"}
      [] cls = "Order" -> {"status"}
      [] cls = "Delivery" -> {"status"}
      [] cls = "Payment" -> {"payment_method", "payment_status"}
      [] cls = "Vehicle" -> {"type"}
      [] cls = "ItemCreate" -> {"title"}
      [] cls = "ItemUpdate" -> {}

\* The validator of field f of class cls, applied to value v.
FieldOk(cls, f, v) ==
    CASE cls = "Feedback" /\ f = "rating" -> RatingOk(v)
      [] cls = "Promotion" /\ f = "discount_percentage" -> DiscountOk(v)
      [] cls = "Order" /\ f = "status" -> v \in OrderStatus
      [] cls = "Delivery" /\ f = "status" -> v \in DeliveryStatus
      [] cls = "Payment" /\ f = "payment_method" -> v \in PaymentMethod
      [] cls = "Payment" /\ f = "payment_status" -> v \in PaymentStatus
      [] cls = "Vehicle" /\ f = "type" -> v \in VehicleType
      [] cls = "ItemCreate" /\ f = "title" -> ItemBaseTitleOk(v)
      [] cls = "ItemUpdate" /\ f = "title" -> ItemUpdateTitleOk(v)
      [] cls \in {"ItemCreate", "ItemUpdate"} /\ f = "description" -> DescriptionOk(v)

\* pydantic's validation of the keyword values data against class cls.
Valid(cls, data) ==
    /\ Required(cls) \subseteq DOMAIN data
    /\ \A f \in DOMAIN data : FieldOk(cls, f, data[f])

\* Whether Cls(**data) raises ValidationError: the constructor of a table model
\* stores the values as given; the constructor of any other model validates.
InitRaises(cls, data) == IF cls \in TableModels THEN FALSE ELSE ~Valid(cls, data)

\* Whether Cls.model_validate(data) raises ValidationError.
ModelValidateRaises(cls, data) == ~Valid(cls, data)

\* Cls(**data), for the pending call obj
Construct ==
    /\ obj.via = "call"
    /\ obj' = [obj EXCEPT !.via = "init", !.raised = InitRaises(obj.cls, obj.input)]
    /\ UNCHANGED <<tables, now, outcome, rows, response>>

\* Cls.model_validate(data), for the pending call obj
ModelValidate ==
    /\ obj.via = "call"
    /\ obj' = [obj EXCEPT !.via = "model_validate",
                          !.raised = ModelValidateRaises(obj.cls, obj.input)]
    /\ UNCHANGED <<tables, now, outcome, rows, response>>

\* A value outside each enum.
Undeclared == "unknown"

\* The lengths tried: those around 0 and around each declared maximum.
Lengths ==
    (0..Slack) \cup ((TitleMaxLength - Slack)..(TitleMaxLength + Slack))
               \cup ((DescriptionMaxLength - Slack)..(DescriptionMaxLength + Slack))

\* The keyword values over any subset of the fields title and description that
\* holds the required ones.
ItemData(required) ==
    {d \in UNION {[fs -> Lengths] : fs \in SUBSET {"title", "description"}} :
        required \subseteq DOMAIN d}

Inputs(cls) ==
    CASE cls = "Feedback" -> [rating : (RatingMin - Slack)..(RatingMax + Slack)]
      [] cls = "Promotion" ->
            [discount_percentage : (DiscountMin - Slack)..(DiscountMax + Slack)]
      [] cls = "Order" -> [status : OrderStatus \cup {Undeclared, UndeclaredStatus}]
      [] cls = "Delivery" -> [status : DeliveryStatus \cup {Undeclared}]
      [] cls = "Payment" -> [payment_method : PaymentMethod \cup {Undeclared},
                             payment_status : PaymentStatus \cup {Undeclared}]
      [] cls = "Vehicle" -> [type : VehicleType \cup {Undeclared}]
      [] cls = "ItemCreate" -> ItemData({"title"})
      [] cls = "ItemUpdate" -> ItemData({})

Classes ==
    {"Feedback", "Promotion", "Order", "Delivery", "Payment", "Vehicle", "ItemCreate",
     "ItemUpdate"}

\* The calls to make: a class and the keyword values passed to it.
Calls ==
    UNION {{[cls |-> c, via |-> "call", input |-> d, raised |-> FALSE] : d \in Inputs(c)} :
              c \in Classes}

InitModels ==
    /\ user = <<>> /\ item = <<>> /\ address = <<>>
    /\ order = <<>> /\ packageitem = <<>> /\ payment = <<>>
    /\ now = 0
    /\ outcome = NoOutcome
    /\ obj \in Calls
    /\ rows = <<>>
    /\ response = NoResponse

NextModels == Construct \/ ModelValidate

SpecModels == InitModels /\ [][NextModels]_vars

-----------------------------------------------------------------------------
(* Properties of the store (Spec) *)

\* C1: no Item refers to a missing User and no PackageItem to a missing Order;
\* deleting a User takes effect and leaves no Item owned by it; deleting an Order
\* leaves no PackageItem of it, and is refused only while a Payment refers to the
\* Order.
C1_CascadeDelete ==
    /\ \A i \in DOMAIN item : item[i].owner_id \in DOMAIN user
    /\ \A p \in DOMAIN packageitem : packageitem[p].order_id \in DOMAIN order
    /\ outcome.op = "delete_user" =>
          /\ outcome.result = "ok"
          /\ outcome.id \notin DOMAIN user
          /\ \A i \in DOMAIN item : item[i].owner_id # outcome.id
    /\ outcome.op = "delete_order" =>
          IF outcome.result = "ok"
          THEN /\ outcome.id \notin DOMAIN order
               /\ \A p \in DOMAIN packageitem : packageitem[p].order_id # outcome.id
          ELSE \E p \in DOMAIN payment : payment[p].order_id = outcome.id

\* A User was deleted and two Items went with it.
C1_Witness ==
    /\ outcome.op = "delete_user"
    /\ outcome.result = "ok"
    /\ Cardinality({r \in outcome.removed : r[1] = "item"}) = 2

\* C2 as claimed: a deletion removes, besides its target, only the Items of a
\* deleted User and the PackageItems of a deleted Order; deleting a PackageItem,
\* an Item, an Address or a Payment removes that row alone.
C2_NoOtherCascades ==
    outcome.result = "ok" =>
        CASE outcome.op = "delete_user" ->
                \A r \in outcome.removed : r = <<"user", outcome.id>> \/ r[1] = "item"
          [] outcome.op = "delete_order" ->
                \A r \in outcome.removed : r = <<"order", outcome.id>> \/ r[1] = "packageitem"
          [] outcome.op = "delete_packageitem" ->
                outcome.removed = {<<"packageitem", outcome.id>>}
          [] outcome.op = "delete_item" -> outcome.removed = {<<"item", outcome.id>>}
          [] outcome.op = "delete_address" -> outcome.removed = {<<"address", outcome.id>>}
          [] outcome.op = "delete_payment" -> outcome.removed = {<<"payment", outcome.id>>}
          [] OTHER -> outcome.removed = {}

\* The Orders that refer to Address a.
OrdersAt(a) ==
    {o \in DOMAIN order :
        order[o].sender_address_id = a \/ order[o].recipient_address_id = a}

\* C3: no Order ever refers to a missing Address, and a step that deletes an
\* Address some Order refers to ends in IntegrityError with every table as it was.
C3_AddressDeleteRejected ==
    /\ [](\A o \in DOMAIN order :
            /\ order[o].sender_address_id \in DOMAIN address
            /\ order[o].recipient_address_id \in DOMAIN address)
    /\ [][(/\ outcome'.op = "delete_address"
           /\ OrdersAt(outcome'.id) # {}
           /\ DeleteAddress(outcome'.id)) =>
                (outcome'.result = "IntegrityError" /\ UNCHANGED tables)]_vars

\* The deletion of an Address an Order refers to was refused.
C3_Witness ==
    /\ outcome.op = "delete_address"
    /\ outcome.result = "IntegrityError"
    /\ outcome.id \in DOMAIN address
    /\ OrdersAt(outcome.id) # {}

\* C4: no two User rows have the same email, and a creation or an update that
\* would give a User the email of another User ends in IntegrityError with every
\* table as it was.
C4_EmailUnique ==
    /\ [](\A u1, u2 \in DOMAIN user : u1 # u2 => user[u1].email # user[u2].email)
    /\ [][\A e \in Emails :
            (/\ outcome'.op \in {"create_user", "update_user"}
             /\ \E v \in DOMAIN user \ {outcome'.id} : user[v].email = e
             /\ CreateUser(outcome'.id, e) \/ UpdateUser(outcome'.id, e)) =>
                (outcome'.result = "IntegrityError" /\ UNCHANGED tables)]_vars

\* Two Users exist and an update of one to the other's email was refused.
C4_Witness ==
    /\ outcome.op = "update_user"
    /\ outcome.result = "IntegrityError"
    /\ Cardinality(DOMAIN user) = 2

-----------------------------------------------------------------------------
(* Properties of the clock (SpecClock) *)

\* C10 as claimed: every entity carries created_at and updated_at, with
\* updated_at >= created_at.
C10_AllEntitiesStamped ==
    /\ \A o \in DOMAIN order :
          /\ {"created_at", "updated_at"} \subseteq DOMAIN order[o]
          /\ order[o].updated_at >= order[o].created_at
    /\ \A p \in DOMAIN payment :
          /\ {"created_at", "updated_at"} \subseteq DOMAIN payment[p]
          /\ payment[p].updated_at >= payment[p].created_at

\* C10, amended: an Order's created_at is the clock's reading when the Order is
\* constructed and never changes; its updated_at is the reading at the end of its
\* construction and, after that, the reading at the last step that changed the
\* row; updated_at >= created_at.  A Payment has created_at alone, the reading at
\* its construction, and it never changes.
C10_Timestamps ==
    /\ [](\A o \in DOMAIN order : order[o].updated_at >= order[o].created_at)
    /\ [](\A p \in DOMAIN payment : DOMAIN payment[p] = {"order_id", "created_at"})
    /\ [][\A o \in DOMAIN order' :
            IF o \in DOMAIN order
            THEN /\ order'[o].created_at = order[o].created_at
                 /\ order'[o] # order[o] => order'[o].updated_at = now'
            ELSE /\ order'[o].created_at = now
                 /\ order'[o].updated_at = now']_vars
    /\ [][\A p \in DOMAIN payment' :
            IF p \in DOMAIN payment
            THEN payment'[p].created_at = payment[p].created_at
            ELSE payment'[p].created_at = now]_vars

\* An Order constructed at one reading was changed at a later one.
C10_Witness ==
    /\ outcome.op = "update_order"
    /\ outcome.result = "ok"
    /\ order[outcome.id].updated_at = now
    /\ order[outcome.id].updated_at > order[outcome.id].created_at

-----------------------------------------------------------------------------
(* Properties of the transfer shapes (SpecPublic) *)

\* C5: every element of UsersPublic.data has exactly the fields id, email,
\* is_active, is_superuser, full_name, and two Users that agree on these fields
\* have the same UserPublic whatever their hashed passwords.
C5_PublicHidesPassword ==
    \A k \in DOMAIN response.data :
        /\ DOMAIN response.data[k] = {"id", "email", "is_active", "is_superuser", "full_name"}
        /\ \A j \in DOMAIN response.data :
              (\A f \in {"id", "email", "is_active", "is_superuser", "full_name"} :
                  rows[j][f] = rows[k][f])
              => response.data[j] = response.data[k]

\* A UsersPublic was built from two Users that differ in hashed_password alone.
C5_Witness ==
    /\ Len(response.data) = 2
    /\ rows[1].hashed_password # rows[2].hashed_password
    /\ \A f \in {"id", "email", "is_active", "is_superuser", "full_name"} :
          rows[1][f] = rows[2][f]

-----------------------------------------------------------------------------
(* Properties of construction (SpecModels) *)

\* C6 as claimed: constructing a Feedback with rating r succeeds if and only if
\* 1 <= r <= 5.
C6_RatingValidated ==
    (obj.cls = "Feedback" /\ obj.via # "call") =>
        (~obj.raised <=> (1 <= obj.input.rating /\ obj.input.rating <= 5))

\* C7 as claimed: constructing a Promotion with discount d succeeds if and only
\* if 0 <= d <= 100.
C7_DiscountValidated ==
    (obj.cls = "Promotion" /\ obj.via # "call") =>
        (~obj.raised <=>
            (0 <= obj.input.discount_percentage /\ obj.input.discount_percentage <= 100))

\* C8 as claimed: an instance constructed without error holds a declared tag in
\* each of its enum fields.
C8_EnumClosure ==
    (obj.via # "call" /\ ~obj.raised) =>
        /\ obj.cls = "Order" =>
              obj.input.status \in
                  {"pending", "confirmed", "in_transit", "delivered", "cancelled"}
        /\ obj.cls = "Delivery" =>
              obj.input.status \in {"assigned", "in_transit", "delivered", "cancelled"}
        /\ obj.cls = "Payment" =>
              /\ obj.input.payment_status \in {"pending", "successful", "failed"}
              /\ obj.input.payment_method \in
                    {"credit_card", "paypal", "crypto", "bank_transfer"}
        /\ obj.cls = "Vehicle" =>
              obj.input.type \in {"bike", "car", "truck", "airplane", "ship"}

\* C9: constructing an ItemUpdate from any subset of title and description
\* succeeds if and only if the title, when given, has 1 to 255 characters and
\* the description, when given, at most 255.
C9_ItemUpdatePartial ==
    (obj.cls = "ItemUpdate" /\ obj.via # "call") =>
        (~obj.raised <=>
            /\ "title" \in DOMAIN obj.input =>
                  (1 <= obj.input.title /\ obj.input.title <= 255)
            /\ "description" \in DOMAIN obj.input => obj.input.description <= 255)

\* ItemUpdate(title="") raised ValidationError.
C9_Witness ==
    /\ obj.cls = "ItemUpdate"
    /\ obj.via = "init"
    /\ DOMAIN obj.input = {"title"}
    /\ obj.input.title = 0
    /\ obj.raised

=============================================================================
